---- MODULE Spec2Model ----
(***************************************************************************)
(* Model of the Valon 5007 adapter (class Valon5007) and of its two        *)
(* facades (classes Valon1 and Valon2) of src/__init__.py.                 *)
(*                                                                         *)
(* The vendor library valon_synth and the serial instrument behind it are  *)
(* the environment.  A vendor getter either raises or returns a reading;   *)
(* a reading is tagged with the getter, the synthesizer id and the serial  *)
(* number of the vendor call that produced it, so that a cached value      *)
(* identifies the call it came from.  A vendor setter raises, reports      *)
(* failure (a false value) or reports success.                             *)
(***************************************************************************)
EXTENDS Integers, Sequences, FiniteSets, TLC

VARIABLES
  status,           \* status[o][ch] : the dict self.status[ch] of the adapter made by constructor o
  constructed,      \* the constructors that have returned an object
  facade_status,    \* the attribute self.status of a facade: the dict it is bound to
  instance_exists,  \* the class attribute instance_exists of Valon1 and Valon2
  calls,            \* the vendor calls made by the last operation, in order
  op,               \* the last operation: its name, arguments and outcome
  pre,              \* history: status and ncalls as they were when the last operation began
  lastRead,         \* history: the reading of the last completed vendor getter call
  ncalls,           \* serial number of the last vendor call
  nops              \* number of operations issued so far

vars == <<status, constructed, facade_status, instance_exists, calls, op, pre, lastRead,
          ncalls, nops>>

(***************************************************************************)
(* Bounds and inputs                                                       *)
(***************************************************************************)
MaxOps == 3

\* channel numbers a caller may pass: the two outputs and one that does not exist
ChanInputs == {1, 2, 3}

\* RF levels a caller may ask for: below the table, keys, between keys, above the table
LevelInputs == {-5, -4, 0, 1, 6}

\* argument tuples handed to the other setters
ArgInputs == {<<10>>, <<20, 1>>}

(***************************************************************************)
(* valon_synth constants and tables used by the adapter                    *)
(***************************************************************************)
SYNTH_A == 0
SYNTH_B == 8

synth == (1 :> SYNTH_A) @@ (2 :> SYNTH_B)

\* self.rfl_rev_table of the vendor class: allowed RF level (dBm) -> register code
rfl_rev_table == (-4 :> 0) @@ (-1 :> 1) @@ (2 :> 2) @@ (5 :> 3)

get_tasks ==
  ("frequency" :> "get_frequency") @@ ("rf_level" :> "get_rf_level") @@
  ("phase lock" :> "get_phase_lock") @@ ("label" :> "get_label") @@
  ("VCO range" :> "get_vco_range") @@ ("options" :> "get_options")

\* a variant that lists a setter for the read-only phase lock
set_tasks_lock ==
  ("frequency" :> "set_frequency") @@ ("rf_level" :> "set_rf_level") @@
  ("label" :> "set_label") @@ ("VCO range" :> "set_vco_range") @@
  ("options" :> "set_options") @@ ("phase lock" :> "set_phase_lock")

set_tasks ==
  ("frequency" :> "set_frequency") @@ ("rf_level" :> "set_rf_level") @@
  ("label" :> "set_label") @@ ("VCO range" :> "set_vco_range") @@
  ("options" :> "set_options")

\* a variant that walks the keys of __set_tasks__ instead
get_task_keys_short == <<"frequency", "rf_level", "label", "VCO range", "options">>

\* the order in which __get_tasks__.keys() is walked (a dict order: fixed, arbitrary)
get_task_keys == <<"frequency", "rf_level", "phase lock", "label", "VCO range", "options">>

\* parameter names a caller may pass: every gettable one and one unknown name
ParamInputs == DOMAIN get_tasks \cup {"bogus"}

Owners == {"Valon5007", "Valon1", "Valon2"}
FacadeClasses == {"Valon1", "Valon2"}

(***************************************************************************)
(* Python values                                                           *)
(***************************************************************************)
EmptyDict == [k \in {} |-> <<>>]

Put(d, k, v) == [x \in DOMAIN d \cup {k} |-> IF x = k THEN v ELSE d[x]]

Return(v) == [kind |-> "return", val |-> v]
Raise(e) == [kind |-> "raise", val |-> e]

KeyError(what) == <<"KeyError", what, "">>
VendorError(fn) == <<"VendorError", fn, "">>

(***************************************************************************)
(* The vendor library                                                      *)
(***************************************************************************)
\* a vendor getter called as call number n: it returns a reading or raises
vendor_get(fn, s, n, gok) ==
  IF gok
    THEN [fn |-> fn, synth |-> s, args |-> <<>>, res |-> "value", val |-> <<fn, s, n>>]
    ELSE [fn |-> fn, synth |-> s, args |-> <<>>, res |-> "raise", val |-> <<>>]

\* a vendor setter: set_rf_level returns False when the level is no table key;
\* otherwise the outcome ack ("true", "false", "raise") is the instrument's
vendor_set(fn, s, args, ack) ==
  [fn |-> fn, synth |-> s, args |-> args, val |-> <<>>,
   res |-> IF fn = "set_rf_level" /\ ack # "raise" /\ args[1] \notin DOMAIN rfl_rev_table
             THEN "false" ELSE ack]

\* Data_Reduction.nearest_index: the (0-based) index of the element nearest to v
Abs(x) == IF x < 0 THEN -x ELSE x

nearest_index(seq, v) ==
  CHOOSE i \in 0..(Len(seq) - 1) :
    /\ \A j \in 0..(Len(seq) - 1) : Abs(seq[i + 1] - v) <= Abs(seq[j + 1] - v)
    /\ \A j \in 0..(i - 1) : Abs(seq[j + 1] - v) > Abs(seq[i + 1] - v)

(***************************************************************************)
(* Valon5007.get_p                                                         *)
(***************************************************************************)
\* a variant that writes the value into the dict of every channel
get_p_store_both(st, synth_id, param, val) == [ch \in DOMAIN st |-> Put(st[ch], param, val)]

\* self.status[synth_id][param] = <the getter's value>
get_p_store(st, synth_id, param, val) == [st EXCEPT ![synth_id] = Put(@, param, val)]

get_p(st, n, param, synth_id, gok) ==
  IF synth_id \notin DOMAIN synth
    THEN [st |-> st, calls |-> <<>>, out |-> Raise(KeyError("synth"))]
  ELSE IF param \notin DOMAIN get_tasks
    THEN [st |-> st, calls |-> <<>>, out |-> Raise(KeyError("__get_tasks__"))]
  ELSE
    LET s == synth[synth_id]
        c == vendor_get(get_tasks[param], s, n + 1, gok)
    IN  IF c.res = "raise"
          THEN [st |-> st, calls |-> <<c>>, out |-> Raise(VendorError(c.fn))]
          ELSE LET st2 == get_p_store(st, synth_id, param, c.val)
               IN  [st |-> st2, calls |-> <<c>>, out |-> Return(st2[synth_id][param])]

(***************************************************************************)
(* Valon5007.update_synth_status                                           *)
(***************************************************************************)
\* the loop over the keys: failAt is the position of the getter that raises (0: none)
RECURSIVE update_loop(_, _, _, _, _, _)
update_loop(st, n, keys, i, synth_id, failAt) ==
  IF i > Len(keys)
    THEN [st |-> st, calls |-> <<>>, out |-> Return(<<>>)]
    ELSE LET r == get_p(st, n, keys[i], synth_id, i # failAt)
         IN  IF r.out.kind = "raise"
               THEN r
               ELSE LET rest == update_loop(r.st, n + Len(r.calls), keys, i + 1, synth_id, failAt)
                    IN  [st |-> rest.st, calls |-> r.calls \o rest.calls, out |-> rest.out]

update_synth_status(st, n, synth_id, failAt) ==
  LET r == update_loop(st, n, get_task_keys, 1, synth_id, failAt)
  IN  IF r.out.kind = "raise"
        THEN r
        ELSE [st |-> r.st, calls |-> r.calls, out |-> Return(r.st[synth_id])]

(***************************************************************************)
(* Valon5007.__init__                                                      *)
(***************************************************************************)
NewStatus == (1 :> EmptyDict) @@ (2 :> EmptyDict)

\* open_ok: vs.Synthesizer.__init__ and conn.setTimeout went through;
\* f1, f2: the getter that raises while channel 1, channel 2 is read (0: none)
Valon5007_new(n, open_ok, f1, f2) ==
  LET r1 == update_synth_status(NewStatus, n, 1, f1)
  IN  IF ~open_ok
        THEN [st |-> NewStatus, calls |-> <<>>, out |-> Raise(VendorError("Synthesizer"))]
      ELSE IF r1.out.kind = "raise"
        THEN r1
        ELSE LET r2 == update_synth_status(r1.st, n + Len(r1.calls), 2, f2)
             IN  IF r2.out.kind = "raise"
                   THEN [st |-> r2.st, calls |-> r1.calls \o r2.calls, out |-> r2.out]
                   ELSE [st |-> r2.st, calls |-> r1.calls \o r2.calls, out |-> Return(<<>>)]

(***************************************************************************)
(* Valon5007.set_p                                                         *)
(***************************************************************************)
\* pkeys = self.rfl_rev_table.keys(); pkeys.sort()
RECURSIVE sorted(_)
sorted(S) ==
  IF S = {} THEN <<>>
  ELSE LET m == CHOOSE x \in S : \A y \in S : x <= y
       IN  <<m>> \o sorted(S \ {m})

\* a variant without the correction of the RF level
set_args_raw(param, args) == args

\* the arguments handed to the vendor setter
set_args(param, args) ==
  IF param = "rf_level"
    THEN LET pkeys == sorted(DOMAIN rfl_rev_table)
             best_key == nearest_index(pkeys, args[1])
         IN  <<pkeys[best_key + 1]>>
    ELSE args

\* a variant that calls the setter a second time when the first call did not succeed
call_setter_twice(fn, s, args, ack) ==
  IF vendor_set(fn, s, args, ack).res = "true"
    THEN <<vendor_set(fn, s, args, ack)>>
    ELSE <<vendor_set(fn, s, args, ack), vendor_set(fn, s, args, ack)>>

\* success = self.__set_tasks__[param](s, *args, **kwargs)
call_setter(fn, s, args, ack) == <<vendor_set(fn, s, args, ack)>>

\* a variant that reads back whatever the setter returned
readback_always(res) == TRUE

\* if success: ... (only reached when the setter did not raise)
readback_due(res) == res = "true"

\* a variant that reports a false return value like a raised exception
set_error_same(param, res) == <<"Exception", param, "set failed">>

\* the exception set_p raises when the setter raised or returned a false value
set_error(param, res) ==
  IF res = "raise"
    THEN <<"Exception", param, "set failed">>
    ELSE <<"ObservatoryError", param, "setting failed">>

\* a variant that returns the read-back value without caching it
set_p_store_none(st, synth_id, param, val) == st

\* self.status[synth_id][param] = <the read-back value>
set_p_store(st, synth_id, param, val) == [st EXCEPT ![synth_id] = Put(@, param, val)]

set_p(st, n, param, synth_id, args, ack, gok) ==
  IF synth_id \notin DOMAIN synth
    THEN [st |-> st, calls |-> <<>>, out |-> Raise(KeyError("synth"))]
  ELSE IF param = "rf_level" /\ Len(args) = 0
    THEN [st |-> st, calls |-> <<>>, out |-> Raise(<<"IndexError", "args", "">>)]
  ELSE IF param \notin DOMAIN set_tasks
    THEN [st |-> st, calls |-> <<>>, out |-> Raise(<<"Exception", param, "set failed">>)]
  ELSE
    LET s == synth[synth_id]
        cs == call_setter(set_tasks[param], s, set_args(param, args), ack)
        res == cs[Len(cs)].res
    IN  IF res = "raise" \/ ~readback_due(res)
          THEN [st |-> st, calls |-> cs, out |-> Raise(set_error(param, res))]
          ELSE LET g == vendor_get(get_tasks[param], s, n + Len(cs) + 1, gok)
               IN  IF g.res = "raise"
                     THEN [st |-> st, calls |-> cs \o <<g>>, out |-> Raise(VendorError(g.fn))]
                     ELSE LET st2 == set_p_store(st, synth_id, param, g.val)
                          IN  [st |-> st2, calls |-> cs \o <<g>>,
                               out |-> Return(st2[synth_id][param])]

(***************************************************************************)
(* Valon1 and Valon2                                                       *)
(***************************************************************************)
\* self.hw = Valon5007(timeout); self.status = self.hw.status[1];
\* Valon1.instance_exists = True
Valon1_new(n, open_ok, f1, f2) ==
  [hw |-> Valon5007_new(n, open_ok, f1, f2), status_of |-> 1, sets_flag |-> TRUE]

Valon1_get_p(hw, n, param, gok) == get_p(hw, n, param, 1, gok)

Valon1_set_p(hw, n, param, args, ack, gok) == set_p(hw, n, param, 1, args, ack, gok)

Valon1_update_synth_status(hw, n, failAt) == update_synth_status(hw, n, 1, failAt)

\* self.hw = Valon5007(timeout); self.status = self.hw.status[2]
Valon2_new(n, open_ok, f1, f2) ==
  [hw |-> Valon5007_new(n, open_ok, f1, f2), status_of |-> 2, sets_flag |-> FALSE]

\* a variant that reads channel 1
Valon2_get_p_ch1(hw, n, param, gok) == get_p(hw, n, param, 1, gok)

Valon2_get_p(hw, n, param, gok) == get_p(hw, n, param, 2, gok)

Valon2_set_p(hw, n, param, args, ack, gok) == set_p(hw, n, param, 2, args, ack, gok)

Valon2_update_synth_status(hw, n, failAt) == update_synth_status(hw, n, 2, failAt)

(***************************************************************************)
(* The state machine                                                       *)
(***************************************************************************)
SynthIds == {SYNTH_A, SYNTH_B}
Getters == {get_tasks[p] : p \in DOMAIN get_tasks}
Setters == {set_tasks[p] : p \in DOMAIN set_tasks}

NoOp == [name |-> "none", cls |-> "none", param |-> "", synth_id |-> 0, args |-> <<>>,
         out |-> Return(<<>>)]

Init ==
  /\ status = [o \in Owners |-> NewStatus]
  /\ constructed = {}
  /\ facade_status = [c \in FacadeClasses |-> 0]
  /\ instance_exists = [c \in FacadeClasses |-> FALSE]
  /\ calls = <<>>
  /\ op = NoOp
  /\ pre = [status |-> [o \in Owners |-> NewStatus], ncalls |-> 0]
  /\ lastRead = [o \in Owners |-> [s \in SynthIds |-> EmptyDict]]
  /\ ncalls = 0
  /\ nops = 0

\* the completed getter calls of cs, recorded over the readings old
Recorded(old, cs) ==
  [s \in SynthIds |->
     LET hits(fn) == {i \in 1..Len(cs) : cs[i].fn = fn /\ cs[i].synth = s /\ cs[i].res = "value"}
         fns == {fn \in Getters : hits(fn) # {}}
         last(fn) == CHOOSE i \in hits(fn) : \A j \in hits(fn) : j <= i
     IN  [fn \in DOMAIN old[s] \cup fns |-> IF fn \in fns THEN cs[last(fn)].val ELSE old[s][fn]]]

Ready == nops < MaxOps

\* the effect of an operation of the live adapter of owner o with result r
Effect(o, d, r) ==
  /\ status' = [status EXCEPT ![o] = r.st]
  /\ calls' = r.calls
  /\ op' = [d EXCEPT !.out = r.out]
  /\ pre' = [status |-> status, ncalls |-> ncalls]
  /\ lastRead' = [lastRead EXCEPT ![o] = Recorded(@, r.calls)]
  /\ ncalls' = ncalls + Len(r.calls)
  /\ nops' = nops + 1
  /\ UNCHANGED <<constructed, facade_status, instance_exists>>

\* the effect of a constructor call of class o whose adapter construction gave r:
\* an exception leaves no object behind
Construct(o, r, status_of, sets_flag) ==
  /\ calls' = r.calls
  /\ op' = [NoOp EXCEPT !.name = "__init__", !.cls = o, !.out = r.out]
  /\ pre' = [status |-> status, ncalls |-> ncalls]
  /\ ncalls' = ncalls + Len(r.calls)
  /\ nops' = nops + 1
  /\ IF r.out.kind = "return"
       THEN /\ status' = [status EXCEPT ![o] = r.st]
            /\ constructed' = constructed \cup {o}
            /\ lastRead' = [lastRead EXCEPT ![o] = Recorded([s \in SynthIds |-> EmptyDict], r.calls)]
            /\ facade_status' = IF o \in FacadeClasses
                                  THEN [facade_status EXCEPT ![o] = status_of]
                                  ELSE facade_status
            /\ instance_exists' = IF o \in FacadeClasses /\ sets_flag
                                    THEN [instance_exists EXCEPT ![o] = TRUE]
                                    ELSE instance_exists
       ELSE UNCHANGED <<status, constructed, lastRead, facade_status, instance_exists>>

\* the environment's choices while a constructor reads both channels
CtorFaults == {<<TRUE, 0, 0>>, <<FALSE, 0, 0>>}
                \cup {<<TRUE, f, 0>> : f \in 1..Len(get_task_keys)}
                \cup {<<TRUE, 0, f>> : f \in 1..Len(get_task_keys)}

\* the instrument's answers to a set and to the read-back that follows a success
SetOutcomes == {<<"true", TRUE>>, <<"true", FALSE>>, <<"false", TRUE>>, <<"raise", TRUE>>}

\* the instrument answers only when it is called
SetAnswers(param, synth_id) ==
  IF synth_id \in DOMAIN synth /\ param \in DOMAIN set_tasks
    THEN SetOutcomes ELSE {<<"true", TRUE>>}

GetAnswers(param, synth_id) ==
  IF synth_id \in DOMAIN synth /\ param \in DOMAIN get_tasks
    THEN BOOLEAN ELSE {TRUE}

SetArgs(param) == IF param = "rf_level" THEN {<<>>} \cup {<<v>> : v \in LevelInputs} ELSE ArgInputs

Desc(name, cls, param, synth_id, args) ==
  [name |-> name, cls |-> cls, param |-> param, synth_id |-> synth_id, args |-> args,
   out |-> Return(<<>>)]

Valon5007_init ==
  /\ Ready /\ "Valon5007" \notin constructed
  /\ \E e \in CtorFaults :
       \E r \in {Valon5007_new(ncalls, e[1], e[2], e[3])} : Construct("Valon5007", r, 0, FALSE)

Do_get_p ==
  /\ Ready /\ "Valon5007" \in constructed
  /\ \E param \in ParamInputs, synth_id \in ChanInputs :
     \E gok \in GetAnswers(param, synth_id) :
       \E r \in {get_p(status["Valon5007"], ncalls, param, synth_id, gok)} :
              Effect("Valon5007", Desc("get_p", "Valon5007", param, synth_id, <<>>), r)

Do_set_p ==
  /\ Ready /\ "Valon5007" \in constructed
  /\ \E param \in ParamInputs, synth_id \in ChanInputs :
       \E args \in SetArgs(param), e \in SetAnswers(param, synth_id) :
         \E r \in {set_p(status["Valon5007"], ncalls, param, synth_id, args, e[1], e[2])} :
                Effect("Valon5007", Desc("set_p", "Valon5007", param, synth_id, args), r)

Do_update_synth_status ==
  /\ Ready /\ "Valon5007" \in constructed
  /\ \E synth_id \in ChanInputs :
     \E failAt \in (IF synth_id \in DOMAIN synth THEN 0..Len(get_task_keys) ELSE {0}) :
       \E r \in {update_synth_status(status["Valon5007"], ncalls, synth_id, failAt)} :
              Effect("Valon5007", Desc("update_synth_status", "Valon5007", "", synth_id, <<>>), r)

Next == Valon5007_init \/ Do_get_p \/ Do_set_p \/ Do_update_synth_status

Spec == Init /\ [][Next]_vars

Valon1_init ==
  /\ Ready /\ "Valon1" \notin constructed
  /\ \E e \in CtorFaults :
       \E v \in {Valon1_new(ncalls, e[1], e[2], e[3])} :
         Construct("Valon1", v.hw, v.status_of, v.sets_flag)

Valon2_init ==
  /\ Ready /\ "Valon2" \notin constructed
  /\ \E e \in CtorFaults :
       \E v \in {Valon2_new(ncalls, e[1], e[2], e[3])} :
         Construct("Valon2", v.hw, v.status_of, v.sets_flag)

Do_Valon1_get_p ==
  /\ Ready /\ "Valon1" \in constructed
  /\ \E param \in ParamInputs :
     \E gok \in GetAnswers(param, 1) :
       \E r \in {Valon1_get_p(status["Valon1"], ncalls, param, gok)} :
              Effect("Valon1", Desc("get_p", "Valon1", param, 0, <<>>), r)

Do_Valon1_set_p ==
  /\ Ready /\ "Valon1" \in constructed
  /\ \E param \in ParamInputs :
       \E args \in SetArgs(param), e \in SetAnswers(param, 1) :
         \E r \in {Valon1_set_p(status["Valon1"], ncalls, param, args, e[1], e[2])} :
                Effect("Valon1", Desc("set_p", "Valon1", param, 0, args), r)

Do_Valon1_update_synth_status ==
  /\ Ready /\ "Valon1" \in constructed
  /\ \E failAt \in 0..Len(get_task_keys) :
       \E r \in {Valon1_update_synth_status(status["Valon1"], ncalls, failAt)} :
              Effect("Valon1", Desc("update_synth_status", "Valon1", "", 0, <<>>), r)

Do_Valon2_get_p ==
  /\ Ready /\ "Valon2" \in constructed
  /\ \E param \in ParamInputs :
     \E gok \in GetAnswers(param, 2) :
       \E r \in {Valon2_get_p(status["Valon2"], ncalls, param, gok)} :
              Effect("Valon2", Desc("get_p", "Valon2", param, 0, <<>>), r)

Do_Valon2_set_p ==
  /\ Ready /\ "Valon2" \in constructed
  /\ \E param \in ParamInputs :
       \E args \in SetArgs(param), e \in SetAnswers(param, 2) :
         \E r \in {Valon2_set_p(status["Valon2"], ncalls, param, args, e[1], e[2])} :
                Effect("Valon2", Desc("set_p", "Valon2", param, 0, args), r)

Do_Valon2_update_synth_status ==
  /\ Ready /\ "Valon2" \in constructed
  /\ \E failAt \in 0..Len(get_task_keys) :
       \E r \in {Valon2_update_synth_status(status["Valon2"], ncalls, failAt)} :
              Effect("Valon2", Desc("update_synth_status", "Valon2", "", 0, <<>>), r)

NextFacade ==
  \/ Valon1_init \/ Valon2_init
  \/ Do_Valon1_get_p \/ Do_Valon1_set_p \/ Do_Valon1_update_synth_status
  \/ Do_Valon2_get_p \/ Do_Valon2_set_p \/ Do_Valon2_update_synth_status

SpecFacade == Init /\ [][NextFacade]_vars

(***************************************************************************)
(* Properties                                                              *)
(***************************************************************************)
GettableParams == {"frequency", "rf_level", "phase lock", "label", "VCO range", "options"}
SettableParams == {"frequency", "rf_level", "label", "VCO range", "options"}
LevelKeys == {-4, -1, 2, 5}
GetterOf(p) == CASE p = "frequency" -> "get_frequency" [] p = "rf_level" -> "get_rf_level"
                 [] p = "phase lock" -> "get_phase_lock" [] p = "label" -> "get_label"
                 [] p = "VCO range" -> "get_vco_range" [] p = "options" -> "get_options"
SetterOf(p) == CASE p = "frequency" -> "set_frequency" [] p = "rf_level" -> "set_rf_level"
                 [] p = "label" -> "set_label" [] p = "VCO range" -> "set_vco_range"
                 [] p = "options" -> "set_options"
SynthOf(ch) == IF ch = 1 THEN SYNTH_A ELSE SYNTH_B

\* the channel the last operation was issued for
OpChan == CASE op.cls = "Valon1" -> 1 [] op.cls = "Valon2" -> 2 [] OTHER -> op.synth_id
OpOnChannel == op.name \in {"get_p", "set_p", "update_synth_status"} /\ OpChan \in {1, 2}
Returned == op.out.kind = "return"
Raised(e) == op.out.kind = "raise" /\ op.out.val = e
Untouched == status = pre.status
GetCalls == {i \in 1..Len(calls) : calls[i].fn \in Getters}
SetCalls == {i \in 1..Len(calls) : calls[i].fn \notin Getters}

\* C1: every cache entry of a live adapter is the reading of the most recent
\* completed vendor getter call for that channel and parameter, and a get_p
\* that returns, returns the value it has just stored.
C1_CacheIsLastRead ==
  /\ \A o \in constructed, ch \in {1, 2}, p \in GettableParams :
       /\ p \in DOMAIN status[o][ch]
       /\ GetterOf(p) \in DOMAIN lastRead[o][SynthOf(ch)]
       /\ status[o][ch][p] = lastRead[o][SynthOf(ch)][GetterOf(p)]
  /\ (op.name = "get_p" /\ Returned) =>
       /\ Len(calls) = 1 /\ calls[1].res = "value"
       /\ op.out.val = calls[1].val
       /\ op.out.val = status[op.cls][OpChan][op.param]

C1_Witness ==
  /\ op.name = "set_p" /\ op.cls = "Valon5007" /\ Returned
  /\ pre.status[op.cls][OpChan][op.param] # status[op.cls][OpChan][op.param]
  /\ nops >= 3

\* C2: the level handed to the vendor set_rf_level is a key of the RF-level table,
\* no other key is strictly closer to the requested level, and a requested key is
\* forwarded unchanged; for every other parameter the arguments are forwarded as given.
C2_NearestLevel ==
  (op.name = "set_p") =>
    \A i \in SetCalls :
      IF op.param = "rf_level"
        THEN /\ calls[i].fn = "set_rf_level"
             /\ Len(calls[i].args) = 1
             /\ calls[i].args[1] \in LevelKeys
             /\ \A k \in LevelKeys : Abs(k - op.args[1]) >= Abs(calls[i].args[1] - op.args[1])
             /\ (op.args[1] \in LevelKeys => calls[i].args[1] = op.args[1])
        ELSE /\ calls[i].fn = SetterOf(op.param)
             /\ calls[i].args = op.args

C2_Witness ==
  /\ op.name = "set_p" /\ op.param = "rf_level" /\ SetCalls # {}
  /\ op.args[1] \notin LevelKeys
  /\ \E i \in SetCalls : calls[i].args # op.args

\* a set_p("rf_level", ch, v) for an existing channel with v not a key of the table
SetLevelOffKey ==
  /\ op.name = "set_p" /\ op.param = "rf_level" /\ OpChan \in {1, 2}
  /\ Len(op.args) >= 1 /\ op.args[1] \notin LevelKeys

\* C3 as stated: within such a call the vendor set_rf_level is invoked twice, the
\* first invocation is rejected and the second carries the nearest key.
C3_RetryAfterRejection ==
  SetLevelOffKey =>
    /\ Cardinality(SetCalls) = 2
    /\ \E i, j \in SetCalls :
         /\ i < j
         /\ calls[i].res = "false"
         /\ calls[j].args[1] \in LevelKeys

\* C3 as amended: within such a call the vendor set_rf_level is invoked exactly
\* once, as the first vendor call, and that one invocation already carries the
\* nearest key; the requested level itself is never handed to the vendor.
C3_SingleCorrectedCall ==
  SetLevelOffKey =>
    /\ Cardinality(SetCalls) = 1
    /\ calls[1].fn = "set_rf_level"
    /\ calls[1].args # op.args
    /\ calls[1].args[1] \in LevelKeys
    /\ \A k \in LevelKeys : Abs(k - op.args[1]) >= Abs(calls[1].args[1] - op.args[1])

C3_Witness ==
  /\ SetLevelOffKey /\ Returned
  /\ calls[1].args # op.args

\* the outcome r of an adapter operation is what the last operation did
SameAs(r) ==
  /\ status[op.cls] = r.st
  /\ calls = r.calls
  /\ op.out.kind = r.out.kind
  /\ op.out.val = r.out.val

\* the adapter's operation for channel ch, on the adapter as it was, that the last
\* facade operation is the same as (for some answers of the instrument)
DelegatesTo(ch) ==
  LET hw == pre.status[op.cls]
  IN  CASE op.name = "get_p" ->
             \E gok \in BOOLEAN : SameAs(get_p(hw, pre.ncalls, op.param, ch, gok))
        [] op.name = "set_p" ->
             \E e \in SetOutcomes :
               SameAs(set_p(hw, pre.ncalls, op.param, ch, op.args, e[1], e[2]))
        [] op.name = "update_synth_status" ->
             \E failAt \in 0..6 : SameAs(update_synth_status(hw, pre.ncalls, ch, failAt))
        [] OTHER -> TRUE

C5_ChannelsSeparate ==
  OpOnChannel =>
    /\ status[op.cls][3 - OpChan] = pre.status[op.cls][3 - OpChan]
    /\ \A o \in Owners \ {op.cls} : status[o] = pre.status[o]
    /\ \A i \in 1..Len(calls) : calls[i].synth = SynthOf(OpChan)
    /\ (op.name \in {"get_p", "set_p"} /\ Returned) =>
         /\ DOMAIN status[op.cls][OpChan] = DOMAIN pre.status[op.cls][OpChan]
         /\ \A p \in DOMAIN status[op.cls][OpChan] \ {op.param} :
              status[op.cls][OpChan][p] = pre.status[op.cls][OpChan][p]

C5_Witness ==
  /\ OpOnChannel /\ op.name = "get_p" /\ OpChan = 2 /\ Returned
  /\ status[op.cls][2][op.param] # pre.status[op.cls][2][op.param]
  /\ status[op.cls][1] = pre.status[op.cls][1]
  /\ nops >= 3

\* C6: a set_p that returns has called the vendor setter of its parameter exactly
\* once, with success, then the vendor getter of that parameter exactly once, and
\* returns the read-back value, which is the new cache entry.
C6_SetThenReadBack ==
  /\ (op.name = "set_p") =>
       \A i \in GetCalls : i = 2 /\ calls[1].fn \in Setters /\ calls[1].res = "true"
  /\ (op.name = "set_p" /\ Returned) =>
    /\ op.param \in SettableParams /\ OpChan \in {1, 2}
    /\ Len(calls) = 2
    /\ calls[1].fn = SetterOf(op.param) /\ calls[1].res = "true"
    /\ calls[2].fn = GetterOf(op.param) /\ calls[2].res = "value"
    /\ op.out.val = calls[2].val
    /\ status[op.cls][OpChan][op.param] = op.out.val

C6_Witness ==
  /\ op.name = "set_p" /\ Returned /\ op.param = "frequency"
  /\ Len(calls) = 2

C8_RejectedSetKeepsCache ==
  (op.name = "set_p" /\ SetCalls # {}) =>
    /\ (calls[1].res = "false") =>
         /\ Raised(<<"ObservatoryError", op.param, "setting failed">>)
         /\ GetCalls = {} /\ Untouched
    /\ (calls[1].res = "raise") =>
         /\ Raised(<<"Exception", op.param, "set failed">>)
         /\ GetCalls = {} /\ Untouched

C8_Witness ==
  /\ op.name = "set_p" /\ SetCalls # {} /\ calls[1].res = "false"
  /\ op.out.kind = "raise"

C10_InstanceFlag ==
  \A c \in FacadeClasses : instance_exists[c] = (c \in constructed)

====
